---------------------------- MODULE Spec2Model ----------------------------
(***************************************************************************)
(* Model of the two programs of the repository:                            *)
(*   fourier_visualize.py  FourierSeriesVisualizer: parameters, the series *)
(*                         evaluators, the widget callbacks, reset and     *)
(*                         populate;                                       *)
(*   zeeman_effect.py      the three-prompt command line calculator.       *)
(*                                                                         *)
(* Numbers.  TLA+ has integers only, so real values are fixed point:       *)
(*   - slider values, frequency and amplitude count units of 1/Unit;       *)
(*   - an angle is a fraction p/q of a full turn (2*pi);                   *)
(*   - np.sin and np.cos return a multiple of 1/SCALE, computed by         *)
(*     Bhaskara's rational approximation 16t(pi-t) / (5pi^2 - 4t(pi-t)),   *)
(*     which is exact at 0, pi/6, pi/2 and pi and odd / periodic like sin; *)
(*   - np.pi is the fraction PiNum/PiDen;                                  *)
(*   - a sample of the output is a multiple of 1/(Unit*SCALE).             *)
(* Equality of two samples in the model is therefore equality up to the    *)
(* resolution 1/SCALE of the sine table.                                   *)
(***************************************************************************)
EXTENDS Integers, Sequences, FiniteSets, TLC

\* ---------------------------------------------------------------- bounds
\* number of points of the sample grid (np.linspace(-2pi, 2pi, 1000) keeps 1000)
GridLen == 6
\* a continuous slider range is sampled at SliderSamples + 1 evenly spread values
SliderSamples == 1
\* fixed-point units per 1.0 of a slider value
Unit == 10
\* fixed-point units per 1.0 of a sine / cosine value
SCALE == 1000
\* the pure evaluators are tried on the term counts -MaxEngineTerms .. MaxEngineTerms
MaxEngineTerms == 6

\* ------------------------------------------------------- program constants
PiNum == 355
PiDen == 113
\* Slider(ax_terms, 'Terms', 1, 20, valinit=self.num_terms, valstep=1)
terms_valmin == 1
terms_valmax == 20
\* Slider(ax_freq, 'Frequency', 0.1, 5.0, ...) and Slider(ax_amp, 'Amplitude', 0.1, 3.0, ...)
freq_valmin == Unit \div 10
freq_valmax == 5 * Unit
amp_valmin == Unit \div 10
amp_valmax == 3 * Unit
\* the defaults of __init__, which reset restores
default_terms == 5
default_frequency == Unit
default_amplitude == Unit
\* RadioButtons(ax_radio, ('square', 'sawtooth', 'triangle', 'pulse'), active=0)
radio_labels == << "square", "sawtooth", "triangle", "pulse" >>

VARIABLES
    \* FourierSeriesVisualizer fields
    num_terms, frequency, amplitude, current_function,
    \* widget values: Slider.val of the three sliders, RadioButtons.value_selected
    slider_terms, slider_freq, slider_amp, radio,
    \* what is displayed: the line's y data and the axes title
    ydata, title,
    \* the parameter sets calculate_fourier_series ran on, and the lines written to
    \* standard output, during the most recent event (or the constructor)
    calls, printed,
    \* the most recent event
    event,
    \* zeeman_effect.py: the position in the script, the lines
    \* typed on standard input and how many were read, the lines written so far, and
    \* the script's variables
    pc, stdin, nread, stdout, g, m_j, B, delta_E

gui_vars == << num_terms, frequency, amplitude, current_function,
               slider_terms, slider_freq, slider_amp, radio,
               ydata, title, calls, printed, event >>

cli_vars == << pc, stdin, nread, stdout, g, m_j, B, delta_E >>

vars == << gui_vars, cli_vars >>

\* --------------------------------------------------------------- numerics
\* the quotient a / b (b > 0) of two fixed-point numbers, rounded toward zero
quot(a, b) == IF a >= 0 THEN a \div b ELSE -((-a) \div b)

\* Bhaskara's approximation of SCALE * sin(2*pi*P/Q) for 0 <= 2P <= Q
HalfWave(P, Q) ==
    (32 * P * (Q - 2 * P) * SCALE) \div (5 * Q * Q - 8 * P * (Q - 2 * P))

\* np.sin of the angle 2*pi*p/q (q > 0), as a multiple of 1/SCALE
np_sin(p, q) ==
    LET P == (2 * p) % (2 * q)
    IN  IF P <= q THEN HalfWave(P, 2 * q) ELSE -HalfWave(P - q, 2 * q)

\* np.cos of the angle 2*pi*p/q: sin of the angle a quarter turn ahead
np_cos(p, q) == np_sin(4 * p + q, 4 * q)

\* self.x = np.linspace(-2*np.pi, 2*np.pi, 1000): point i (1-based) is the angle
\* 2*pi * XNum(i) / XDen
XDen == GridLen - 1
XNum(i) == 2 * (i - 1) - XDen
x == [i \in 1..GridLen |-> XNum(i)]

\* np.zeros_like(x)
zeros_like(xs) == [i \in 1..Len(xs) |-> 0]

\* range with the stop value included
range_inclusive(start, stop, step) ==
    LET n == IF stop >= start THEN (stop - start + step) \div step ELSE 0
    IN  [k \in 1..n |-> start + (k - 1) * step]

\* range(start, stop, step) for step > 0, as the sequence of its values
range(start, stop, step) ==
    LET n == IF stop > start THEN (stop - start + step - 1) \div step ELSE 0
    IN  [k \in 1..n |-> start + (k - 1) * step]

\* (-1)**k
minus_one_pow(k) == IF k % 2 = 0 THEN 1 ELSE -1

\* result after the loop added the terms ts[k], ts[k+1], ... to it, in loop order
RECURSIVE loop_sum(_, _, _)
loop_sum(result, ts, k) ==
    IF k > Len(ts) THEN result ELSE loop_sum(result + ts[k], ts, k + 1)

\* the angle n * self.frequency * x[i] is the fraction n*freq*XNum(i) / (Unit*XDen)
\* of a turn
\* (4 / (n * np.pi)) * np.sin(n * self.frequency * x)
square_term(freq, xi, n) ==
    quot(4 * PiDen * np_sin(n * freq * xi, Unit * XDen), n * PiNum)

\* (2 / (n * np.pi)) * (-1)**(n+1) * np.sin(n * self.frequency * x)
sawtooth_term(freq, xi, n) ==
    quot(2 * PiDen * minus_one_pow(n + 1) * np_sin(n * freq * xi, Unit * XDen),
         n * PiNum)

\* (8 / (n**2 * np.pi**2)) * (-1)**((n-1)/2) * np.sin(n * self.frequency * x)
triangle_term(freq, xi, n) ==
    quot(8 * PiDen * PiDen * minus_one_pow((n - 1) \div 2)
           * np_sin(n * freq * xi, Unit * XDen),
         n * n * PiNum * PiNum)

\* (2 / (n * np.pi)) * np.sin(n * np.pi / 2) * np.cos(n * self.frequency * x)
pulse_term(freq, xi, n) ==
    quot(2 * PiDen * np_sin(n, 4) * np_cos(n * freq * xi, Unit * XDen),
         n * PiNum * SCALE)

\* square_wave looping over every n instead of the odd ones
square_wave_all_terms(freq, xs, n_terms) ==
    [i \in 1..Len(xs) |->
        LET ns == range(1, n_terms + 1, 1)
        IN  loop_sum(0, [k \in 1..Len(ns) |-> square_term(freq, xs[i], ns[k])], 1)]

square_wave(freq, xs, n_terms) ==
    [i \in 1..Len(xs) |->
        LET ns == range(1, n_terms + 1, 2)
        IN  loop_sum(0, [k \in 1..Len(ns) |-> square_term(freq, xs[i], ns[k])], 1)]

\* sawtooth_wave looping over the odd n only
sawtooth_wave_odd_only(freq, xs, n_terms) ==
    [i \in 1..Len(xs) |->
        LET ns == range(1, n_terms + 1, 2)
        IN  loop_sum(0, [k \in 1..Len(ns) |-> sawtooth_term(freq, xs[i], ns[k])], 1)]

sawtooth_wave(freq, xs, n_terms) ==
    [i \in 1..Len(xs) |->
        LET ns == range(1, n_terms + 1, 1)
        IN  loop_sum(0, [k \in 1..Len(ns) |-> sawtooth_term(freq, xs[i], ns[k])], 1)]

triangle_wave(freq, xs, n_terms) ==
    [i \in 1..Len(xs) |->
        LET ns == range(1, n_terms + 1, 2)
        IN  loop_sum(0, [k \in 1..Len(ns) |-> triangle_term(freq, xs[i], ns[k])], 1)]

pulse_wave(freq, xs, n_terms) ==
    [i \in 1..Len(xs) |->
        LET ns == range(1, n_terms + 1, 1)
        IN  loop_sum(0, [k \in 1..Len(ns) |-> pulse_term(freq, xs[i], ns[k])], 1)]

\* amplitude * wave, clipped to the axes' y limits (-2, 2)
scale_by_clipped(a, ys) ==
    [i \in 1..Len(ys) |->
        IF a * ys[i] > 2 * Unit * SCALE THEN 2 * Unit * SCALE
        ELSE IF a * ys[i] < -(2 * Unit * SCALE) THEN -(2 * Unit * SCALE)
        ELSE a * ys[i]]

\* amplitude * wave, sample by sample
scale_by(a, ys) == [i \in 1..Len(ys) |-> a * ys[i]]

\* calculate_fourier_series on the fields of self
calculate_fourier_series(self) ==
    IF self.current_function = "square"
    THEN scale_by(self.amplitude, square_wave(self.frequency, x, self.num_terms))
    ELSE IF self.current_function = "sawtooth"
    THEN scale_by(self.amplitude, sawtooth_wave(self.frequency, x, self.num_terms))
    ELSE IF self.current_function = "triangle"
    THEN scale_by(self.amplitude, triangle_wave(self.frequency, x, self.num_terms))
    ELSE IF self.current_function = "pulse"
    THEN scale_by(self.amplitude, pulse_wave(self.frequency, x, self.num_terms))
    ELSE zeros_like(x)

\* "unset" is a script variable not assigned yet
Unset == [kind |-> "unset", m |-> 0, e |-> 0]

\* ------------------------------------------------- FourierSeriesVisualizer
\* the object, as a record of the variables
Self ==
    [num_terms |-> num_terms, frequency |-> frequency, amplitude |-> amplitude,
     current_function |-> current_function,
     slider_terms |-> slider_terms, slider_freq |-> slider_freq,
     slider_amp |-> slider_amp, radio |-> radio,
     ydata |-> ydata, title |-> title, calls |-> calls, printed |-> printed]

\* the four parameters calculate_fourier_series reads
params(self) ==
    [num_terms |-> self.num_terms, frequency |-> self.frequency,
     amplitude |-> self.amplitude, current_function |-> self.current_function]

\* str.capitalize() of a radio label
capitalize(label) ==
    CASE label = "square" -> "Square"
      [] label = "sawtooth" -> "Sawtooth"
      [] label = "triangle" -> "Triangle"
      [] label = "pulse" -> "Pulse"
      [] OTHER -> label

\* int(val) rounding up instead of toward zero
int_round_up(val) == (val \div Unit) + 1

\* int(val) of a slider value: the whole part, rounded toward zero
int(val) == quot(val, Unit)

\* update_plot: recompute, set the line's y data and the title
update_plot(self) ==
    [self EXCEPT !.ydata = calculate_fourier_series(self),
                 !.title = << "Fourier Series:", capitalize(self.current_function),
                              "Wave", self.num_terms, "terms" >>,
                 !.calls = Append(self.calls, params(self))]

update_terms(self, val) == update_plot([self EXCEPT !.num_terms = int(val)])

\* update_frequency without the call of update_plot
update_frequency_stale(self, val) == [self EXCEPT !.frequency = val]

update_frequency(self, val) == update_plot([self EXCEPT !.frequency = val])

update_amplitude(self, val) == update_plot([self EXCEPT !.amplitude = val])

update_function(self, label) ==
    update_plot([self EXCEPT !.current_function = label])

\* slider_terms.set_val(val): the slider takes the value and calls the callback
\* registered by slider_terms.on_changed(self.update_terms)
slider_terms_set_val(self, val) ==
    update_terms([self EXCEPT !.slider_terms = val], val)

\* slider_freq.set_val(val), with slider_freq.on_changed(self.update_frequency)
slider_freq_set_val(self, val) ==
    update_frequency([self EXCEPT !.slider_freq = val], val)

\* slider_amp.set_val(val), with slider_amp.on_changed(self.update_amplitude)
slider_amp_set_val(self, val) ==
    update_amplitude([self EXCEPT !.slider_amp = val], val)

\* radio.set_active(index): selects the label of that (0-based) index and calls the
\* callback registered by radio.on_clicked(self.update_function)
radio_set_active(self, index) ==
    LET label == radio_labels[index + 1]
    IN  update_function([self EXCEPT !.radio = label], label)

\* populate_series redrawing with the default number of terms
populate_series_default_terms(self) ==
    LET s == update_plot([self EXCEPT !.num_terms = default_terms])
    IN  [s EXCEPT !.printed = Append(s.printed,
            << "Fourier series populated with", s.num_terms, "terms" >>)]

\* populate_series: update_plot, then the confirmation line
populate_series(self) ==
    LET s == update_plot(self)
    IN  [s EXCEPT !.printed = Append(s.printed,
            << "Fourier series populated with", s.num_terms, "terms" >>)]

\* reset that leaves the selected function alone
reset_keeps_function(self) ==
    LET s1 == slider_terms_set_val(self, default_terms * Unit)
        s2 == slider_freq_set_val(s1, default_frequency)
        s3 == slider_amp_set_val(s2, default_amplitude)
    IN  update_plot(s3)

\* reset that assigns the four fields and the widgets at once and redraws once
reset_direct(self) ==
    update_plot([self EXCEPT !.num_terms = default_terms,
                             !.frequency = default_frequency,
                             !.amplitude = default_amplitude,
                             !.current_function = radio_labels[1],
                             !.slider_terms = default_terms * Unit,
                             !.slider_freq = default_frequency,
                             !.slider_amp = default_amplitude,
                             !.radio = radio_labels[1]])

\* reset: the four widget setters in the order of the code, then update_plot
reset(self) ==
    LET s1 == slider_terms_set_val(self, default_terms * Unit)
        s2 == slider_freq_set_val(s1, default_frequency)
        s3 == slider_amp_set_val(s2, default_amplitude)
        s4 == radio_set_active(s3, 0)
    IN  update_plot(s4)

\* __init__: the defaults, the first plot of calculate_fourier_series(), the widgets
\* at their initial values, and update_plot
init_self ==
    LET s0 == [num_terms |-> default_terms, frequency |-> default_frequency,
               amplitude |-> default_amplitude, current_function |-> "square",
               slider_terms |-> 0, slider_freq |-> 0, slider_amp |-> 0,
               radio |-> "", ydata |-> << >>,
               title |-> << "Fourier Series Visualizer" >>,
               calls |-> << >>, printed |-> << >>]
        s1 == [s0 EXCEPT !.ydata = calculate_fourier_series(s0),
                         !.calls = Append(s0.calls, params(s0))]
        s2 == [s1 EXCEPT !.slider_terms = s1.num_terms * Unit,
                         !.slider_freq = s1.frequency,
                         !.slider_amp = s1.amplitude,
                         !.radio = radio_labels[1]]
    IN  update_plot(s2)

\* the values an in-range move of each control can deliver
TermInputs == {k * Unit : k \in terms_valmin..terms_valmax}
FreqInputs ==
    {freq_valmin + (j * (freq_valmax - freq_valmin)) \div SliderSamples :
        j \in 0..SliderSamples}
AmpInputs ==
    {amp_valmin + (j * (amp_valmax - amp_valmin)) \div SliderSamples :
        j \in 0..SliderSamples}

\* an event starts with nothing computed and nothing printed
Begin == [Self EXCEPT !.calls = << >>, !.printed = << >>]

\* the object after the handler returned, and the event that ran
Commit(s, e) ==
    /\ num_terms' = s.num_terms
    /\ frequency' = s.frequency
    /\ amplitude' = s.amplitude
    /\ current_function' = s.current_function
    /\ slider_terms' = s.slider_terms
    /\ slider_freq' = s.slider_freq
    /\ slider_amp' = s.slider_amp
    /\ radio' = s.radio
    /\ ydata' = s.ydata
    /\ title' = s.title
    /\ calls' = s.calls
    /\ printed' = s.printed
    /\ event' = e

\* the object is s, after event e
Holds(s, e) ==
    /\ num_terms = s.num_terms
    /\ frequency = s.frequency
    /\ amplitude = s.amplitude
    /\ current_function = s.current_function
    /\ slider_terms = s.slider_terms
    /\ slider_freq = s.slider_freq
    /\ slider_amp = s.slider_amp
    /\ radio = s.radio
    /\ ydata = s.ydata
    /\ title = s.title
    /\ calls = s.calls
    /\ printed = s.printed
    /\ event = e

\* the calculator is not running
CliOff ==
    /\ pc = "off"
    /\ stdin = << >>
    /\ nread = 0
    /\ stdout = << >>
    /\ g = Unset
    /\ m_j = Unset
    /\ B = Unset
    /\ delta_E = Unset

\* the slider's on_changed callback, after the user moved the Terms slider
TermsChanged ==
    /\ \E val \in TermInputs : Commit(slider_terms_set_val(Begin, val), "terms")
    /\ UNCHANGED cli_vars

FrequencyChanged ==
    /\ \E val \in FreqInputs : Commit(slider_freq_set_val(Begin, val), "frequency")
    /\ UNCHANGED cli_vars

AmplitudeChanged ==
    /\ \E val \in AmpInputs : Commit(slider_amp_set_val(Begin, val), "amplitude")
    /\ UNCHANGED cli_vars

\* the radio's on_clicked callback, after the user clicked one of the labels
FunctionClicked ==
    /\ \E index \in 0..(Len(radio_labels) - 1) :
          Commit(radio_set_active(Begin, index), "function")
    /\ UNCHANGED cli_vars

\* btn_populate.on_clicked(self.populate_series)
PopulateClicked ==
    /\ Commit(populate_series(Begin), "populate")
    /\ UNCHANGED cli_vars

\* btn_reset.on_clicked(self.reset)
ResetClicked ==
    /\ Commit(reset(Begin), "reset")
    /\ UNCHANGED cli_vars

Init == Holds(init_self, "init") /\ CliOff

Next ==
    \/ TermsChanged
    \/ FrequencyChanged
    \/ AmplitudeChanged
    \/ FunctionClicked
    \/ PopulateClicked
    \/ ResetClicked

\* the visualizer: main() constructs it and show() runs the event loop
Spec == Init /\ [][Next]_vars

\* ------------------------------------------- the evaluators on any input
\* calculate_fourier_series accepts whatever the fields hold: term counts below 1,
\* values off the sliders' ranges, a label that is none of the four
EngineTerms == (0 - MaxEngineTerms)..MaxEngineTerms
EngineFreqs == FreqInputs \cup {default_frequency, 3 * freq_valmin}
EngineAmps == AmpInputs \cup {default_amplitude}
Kinds == {radio_labels[i] : i \in 1..Len(radio_labels)}
EngineKinds == Kinds \cup {"sine"}

InitEngine ==
    /\ \E t \in EngineTerms, f \in EngineFreqs, a \in EngineAmps, k \in EngineKinds :
          Holds([init_self EXCEPT !.num_terms = t, !.frequency = f,
                                  !.amplitude = a, !.current_function = k,
                                  !.ydata = << >>, !.calls = << >>], "input")
    /\ CliOff

\* one call of calculate_fourier_series on the fields as they are
Calculate ==
    /\ event = "input"
    /\ ydata' = calculate_fourier_series(Self)
    /\ calls' = Append(calls, params(Self))
    /\ event' = "calculate"
    /\ UNCHANGED << num_terms, frequency, amplitude, current_function,
                    slider_terms, slider_freq, slider_amp, radio, title, printed,
                    cli_vars >>

NextEngine == Calculate

SpecEngine == InitEngine /\ [][NextEngine]_vars

\* --------------------------------------------------------- zeeman_effect.py
\* A float is a record: kind "finite" with the decimal value m * 10^e, "inf" with
\* the sign m, or "nan".  "ValueError" is the exception float() raises.
Finite(m, e) == [kind |-> "finite", m |-> m, e |-> e]
Infinite(sign) == [kind |-> "inf", m |-> sign, e |-> 0]
NaN == [kind |-> "nan", m |-> 0, e |-> 0]
ValueError == [kind |-> "ValueError", m |-> 0, e |-> 0]

\* BOHR_MAGNETON = 9.274e-24
BOHR_MAGNETON == Finite(9274, -27)

DigitChars == << "0", "1", "2", "3", "4", "5", "6", "7", "8", "9" >>
IsDigit(c) == \E d \in 1..10 : DigitChars[d] = c
DigitVal(c) == (CHOOSE d \in 1..10 : DigitChars[d] = c) - 1

\* a digitpart of the float grammar: one digit or more
AllDigits(s) == s /= << >> /\ \A i \in 1..Len(s) : IsDigit(s[i])

\* the number a digit string (possibly empty) denotes
RECURSIVE DigitsValue(_)
DigitsValue(s) ==
    IF s = << >> THEN 0
    ELSE 10 * DigitsValue(SubSeq(s, 1, Len(s) - 1)) + DigitVal(s[Len(s)])

\* str.strip() as float() applies it: leading and trailing blanks removed
RECURSIVE strip(_)
strip(s) ==
    IF s /= << >> /\ s[1] = " " THEN strip(Tail(s))
    ELSE IF s /= << >> /\ s[Len(s)] = " " THEN strip(SubSeq(s, 1, Len(s) - 1))
    ELSE s

\* the first index of s holding one of cs, or 0
IndexOf(s, cs) ==
    IF \E i \in 1..Len(s) : s[i] \in cs
    THEN CHOOSE i \in 1..Len(s) : s[i] \in cs /\ \A j \in 1..(i - 1) : s[j] \notin cs
    ELSE 0

\* number ::= [digitpart] "." digitpart | digitpart ["."]
ParseNumber(s) ==
    LET dot == IndexOf(s, {"."})
        ip  == IF dot = 0 THEN s ELSE SubSeq(s, 1, dot - 1)
        fp  == IF dot = 0 THEN << >> ELSE SubSeq(s, dot + 1, Len(s))
    IN  IF \/ (AllDigits(ip) /\ fp = << >>)
           \/ (dot /= 0 /\ AllDigits(fp) /\ (ip = << >> \/ AllDigits(ip)))
        THEN Finite(DigitsValue(ip \o fp), -Len(fp))
        ELSE ValueError

\* exponent ::= ("e" | "E") [sign] digitpart; s is what follows the letter
ParseExponent(s) ==
    LET signed == s /= << >> /\ s[1] \in {"+", "-"}
        ds == IF signed THEN Tail(s) ELSE s
    IN  IF AllDigits(ds)
        THEN Finite(IF signed /\ s[1] = "-" THEN -DigitsValue(ds) ELSE DigitsValue(ds), 0)
        ELSE ValueError

\* absfloatvalue ::= floatnumber | infinity | nan
ParseAbs(s) ==
    LET k == IndexOf(s, {"e", "E"})
        num == ParseNumber(IF k = 0 THEN s ELSE SubSeq(s, 1, k - 1))
        ex  == IF k = 0 THEN Finite(0, 0) ELSE ParseExponent(SubSeq(s, k + 1, Len(s)))
    IN  IF s = << "n", "a", "n" >> THEN NaN
        ELSE IF s \in { << "i", "n", "f" >>,
                        << "i", "n", "f", "i", "n", "i", "t", "y" >> }
        THEN Infinite(1)
        ELSE IF num.kind = "finite" /\ ex.kind = "finite"
        THEN Finite(num.m, num.e + ex.m)
        ELSE ValueError

\* float that reads what it cannot parse as 0.0
float_lenient(line) ==
    LET s == strip(line)
        signed == s /= << >> /\ s[1] \in {"+", "-"}
        v == ParseAbs(IF signed THEN Tail(s) ELSE s)
    IN  IF v.kind = "ValueError" THEN Finite(0, 0)
        ELSE IF signed /\ s[1] = "-" /\ v.kind \in {"finite", "inf"}
        THEN [v EXCEPT !.m = -v.m]
        ELSE v

\* float(line): floatvalue ::= [sign] absfloatvalue, blanks around it ignored
float(line) ==
    LET s == strip(line)
        signed == s /= << >> /\ s[1] \in {"+", "-"}
        v == ParseAbs(IF signed THEN Tail(s) ELSE s)
    IN  IF signed /\ s[1] = "-" /\ v.kind \in {"finite", "inf"}
        THEN [v EXCEPT !.m = -v.m]
        ELSE v

\* a * b on floats
Mul(a, b) ==
    IF a.kind = "nan" \/ b.kind = "nan" THEN NaN
    ELSE IF a.kind = "inf" \/ b.kind = "inf"
    THEN IF a.m = 0 \/ b.m = 0 THEN NaN
         ELSE Infinite(IF (a.m > 0) = (b.m > 0) THEN 1 ELSE -1)
    ELSE Finite(a.m * b.m, a.e + b.e)

\* return BOHR_MAGNETON * g_factor * m_j * magnetic_field
calculate_zeeman_shift(g_factor, mj, magnetic_field) ==
    Mul(Mul(Mul(BOHR_MAGNETON, g_factor), mj), magnetic_field)

\* the number of decimal digits of n > 0
RECURSIVE NumDigits(_)
NumDigits(n) == IF n < 10 THEN 1 ELSE 1 + NumDigits(n \div 10)

RECURSIVE Pow10(_)
Pow10(k) == IF k <= 0 THEN 1 ELSE 10 * Pow10(k - 1)

\* f"{v:.3e}": sign, four significant digits d.ddd (rounded half to even) and the
\* decimal exponent; inf and nan print as words
format_3e(v) ==
    IF v.kind = "nan" THEN << "nan" >>
    ELSE IF v.kind = "inf" THEN << IF v.m < 0 THEN "-inf" ELSE "inf" >>
    ELSE IF v.m = 0 THEN << "+", 0, 0 >>
    ELSE
      LET a   == IF v.m < 0 THEN -v.m ELSE v.m
          d   == NumDigits(a)
          cut == Pow10(d - 4)
          q   == a \div cut
          r   == a % cut
          up  == 2 * r > cut \/ (2 * r = cut /\ q % 2 = 1)
          m4  == IF d <= 4 THEN a * Pow10(4 - d) ELSE IF up THEN q + 1 ELSE q
          sgn == IF v.m < 0 THEN "-" ELSE "+"
      IN  IF m4 = 10000 THEN << sgn, 1000, v.e + d >>
          ELSE << sgn, m4, v.e + d - 1 >>

\* the lines the user may type at a prompt, character by character
InputLines ==
    { << "2", ".", "0" >>, << "1" >>, << "-", ".", "5" >>,
      << " ", "1", "e", "-", "2", " " >>, << "0" >>, << "n", "a", "n" >>,
      << "a", "b", "c" >>, << >>, << "1", ".", "2", ".", "3" >>,
      << "2", ",", "5" >>, << "1", "e" >> }

\* at most the three lines the script asks for
TypedInputs ==
    { << >> } \cup { << a >> : a \in InputLines }
      \cup { << a, b >> : a \in InputLines, b \in InputLines }
      \cup { << a, b, c >> : a \in InputLines, b \in InputLines, c \in InputLines }

\* the visualizer is not running
GuiOff == Holds(init_self, "off")

InitCli ==
    /\ GuiOff
    /\ pc = "start"
    /\ stdin \in TypedInputs
    /\ nread = 0
    /\ stdout = << >>
    /\ g = Unset
    /\ m_j = Unset
    /\ B = Unset
    /\ delta_E = Unset

\* print("Zeeman Effect Energy Shift Calculator")
Banner ==
    /\ pc = "start"
    /\ stdout' = Append(stdout, << "Zeeman Effect Energy Shift Calculator" >>)
    /\ pc' = "read_g"
    /\ UNCHANGED << stdin, nread, g, m_j, B, delta_E, gui_vars >>

\* Each read below is float(input(prompt)): the prompt is written; with no line
\* left input raises EOFError, which nothing catches; otherwise the line is read
\* and parsed, and a ValueError goes to the except clause.
\* g = float(input("Enter Lande g-factor (g): "))
ReadG ==
    /\ pc = "read_g"
    /\ stdout' = Append(stdout, << "Enter Lande g-factor (g): " >>)
    /\ IF nread >= Len(stdin)
       THEN pc' = "eof_error" /\ UNCHANGED << nread, g >>
       ELSE LET val == float(stdin[nread + 1])
            IN  /\ nread' = nread + 1
                /\ IF val.kind = "ValueError"
                   THEN pc' = "except" /\ UNCHANGED g
                   ELSE pc' = "read_m_j" /\ g' = val
    /\ UNCHANGED << stdin, m_j, B, delta_E, gui_vars >>

\* m_j = float(input("Enter magnetic quantum number (m_j): "))
ReadMj ==
    /\ pc = "read_m_j"
    /\ stdout' = Append(stdout, << "Enter magnetic quantum number (m_j): " >>)
    /\ IF nread >= Len(stdin)
       THEN pc' = "eof_error" /\ UNCHANGED << nread, m_j >>
       ELSE LET val == float(stdin[nread + 1])
            IN  /\ nread' = nread + 1
                /\ IF val.kind = "ValueError"
                   THEN pc' = "except" /\ UNCHANGED m_j
                   ELSE pc' = "read_B" /\ m_j' = val
    /\ UNCHANGED << stdin, g, B, delta_E, gui_vars >>

\* B = float(input("Enter magnetic field strength in Tesla (B): "))
ReadB ==
    /\ pc = "read_B"
    /\ stdout' = Append(stdout, << "Enter magnetic field strength in Tesla (B): " >>)
    /\ IF nread >= Len(stdin)
       THEN pc' = "eof_error" /\ UNCHANGED << nread, B >>
       ELSE LET val == float(stdin[nread + 1])
            IN  /\ nread' = nread + 1
                /\ IF val.kind = "ValueError"
                   THEN pc' = "except" /\ UNCHANGED B
                   ELSE pc' = "report" /\ B' = val
    /\ UNCHANGED << stdin, g, m_j, delta_E, gui_vars >>

\* delta_E = calculate_zeeman_shift(g, m_j, B); print(f"\nEnergy shift ...")
Report ==
    /\ pc = "report"
    /\ delta_E' = calculate_zeeman_shift(g, m_j, B)
    /\ stdout' = Append(stdout, << "Energy shift (dE):", format_3e(delta_E'), "Joules" >>)
    /\ pc' = "done"
    /\ UNCHANGED << stdin, nread, g, m_j, B, gui_vars >>

\* except ValueError: print("Invalid input. Please enter numeric values.")
ExceptValueError ==
    /\ pc = "except"
    /\ stdout' = Append(stdout, << "Invalid input. Please enter numeric values." >>)
    /\ pc' = "done"
    /\ UNCHANGED << stdin, nread, g, m_j, B, delta_E, gui_vars >>

NextCli ==
    \/ Banner
    \/ ReadG
    \/ ReadMj
    \/ ReadB
    \/ Report
    \/ ExceptValueError

\* the calculator, run as a script
SpecZeeman == InitCli /\ [][NextCli]_vars

\* ------------------------------------------------------------- properties
\* the parameter set __init__ assigns
Defaults ==
    [num_terms |-> default_terms, frequency |-> default_frequency,
     amplitude |-> default_amplitude, current_function |-> radio_labels[1]]

\* the series for the parameters of the state with the term count replaced
WithTerms(n) == calculate_fourier_series([params(Self) EXCEPT !.num_terms = n])

\* C1: after every control event (and after construction) the displayed samples
\* are the series of the current num_terms, frequency, amplitude and
\* current_function over the grid.
C1_OutputCurrent == ydata = calculate_fourier_series(params(Self))

\* a frequency change arrived with every other parameter off its default, and the
\* curve shown is not flat
C1_Witness ==
    /\ event = "frequency"
    /\ frequency /= default_frequency
    /\ num_terms /= default_terms
    /\ amplitude /= default_amplitude
    /\ current_function = "pulse"
    /\ \E i \in 1..Len(ydata) : ydata[i] /= 0

\* C2: after reset the four parameters are 5, 1.0, 1.0 and square, and the output
\* is the series of exactly those parameters.
C2_ResetDefaults ==
    event = "reset" =>
        /\ params(Self) = Defaults
        /\ num_terms = 5
        /\ frequency = Unit
        /\ amplitude = Unit
        /\ current_function = "square"
        /\ ydata = calculate_fourier_series(Defaults)

\* reset ran from a state in which frequency, amplitude and function were all off
\* their defaults (the first recompute of reset still saw them)
C2_Witness ==
    /\ event = "reset"
    /\ calls[1].frequency /= default_frequency
    /\ calls[1].amplitude /= default_amplitude
    /\ calls[1].current_function /= "square"

\* C3 as stated: every recompute reset performs is on the restored parameter set.
C3_ResetAtomic ==
    event = "reset" => \A k \in 1..Len(calls) : calls[k] = Defaults

\* C3 as amended: reset restores the controls one at a time, each setter running
\* its callback and recomputing on the parameters as they stand: first with only
\* the term count restored, then also the frequency, then also the amplitude, then
\* also the function, and once more on the restored set; the output it leaves is
\* the one of the defaults.
C3_ResetStepwise ==
    [][event' = "reset" =>
         LET before == params(Self)
             c1 == [before EXCEPT !.num_terms = default_terms]
             c2 == [c1 EXCEPT !.frequency = default_frequency]
             c3 == [c2 EXCEPT !.amplitude = default_amplitude]
         IN  /\ calls' = << c1, c2, c3, Defaults, Defaults >>
             /\ ydata' = calculate_fourier_series(Defaults)]_vars

\* reset recomputed on a mixed parameter set: the term count restored, frequency
\* and function not yet
C3_Witness ==
    /\ event = "reset"
    /\ Len(calls) = 5
    /\ calls[1].num_terms = default_terms
    /\ calls[1].frequency = freq_valmax
    /\ calls[3].current_function = "triangle"
    /\ calls[5] = Defaults

\* C4: for square and triangle an even term count gives the series of the count
\* below it (2 terms give what 1 term gives).
C4_EvenTermsSkipped ==
    (/\ event = "calculate"
     /\ current_function \in {"square", "triangle"}
     /\ num_terms % 2 = 0)
        => ydata = WithTerms(num_terms - 1)

\* a triangle series of 2 terms that is not flat
C4_Witness ==
    /\ event = "calculate"
    /\ current_function = "triangle"
    /\ num_terms = 2
    /\ \E i \in 1..Len(ydata) : ydata[i] /= 0

\* C5 as stated: for sawtooth and pulse, 2 terms differ from 1 term at every grid
\* point that is generic for the second harmonic (its sine, for sawtooth, or its
\* cosine, for pulse, is not zero there).
C5_AllTermsDiffer ==
    (/\ event = "calculate"
     /\ current_function \in {"sawtooth", "pulse"}
     /\ num_terms = 2)
        => \A i \in 1..Len(x) :
              (IF current_function = "sawtooth"
               THEN np_sin(2 * frequency * x[i], Unit * XDen)
               ELSE np_cos(2 * frequency * x[i], Unit * XDen)) /= 0
                  => ydata[i] /= WithTerms(1)[i]

\* C5 as amended: sawtooth with 2 terms differs from 1 term at every grid point
\* where its n = 2 term is not zero; pulse visits every n but its even terms carry
\* the factor sin(n pi / 2) = 0, so pulse with 2 terms equals pulse with 1 term,
\* and pulse with 3 terms differs from 2 terms wherever its n = 3 term is not zero.
C5_SawtoothDiffersPulseEvenVanishes ==
    event = "calculate" =>
        /\ (current_function = "sawtooth" /\ num_terms = 2) =>
              \A i \in 1..Len(x) :
                  sawtooth_term(frequency, x[i], 2) /= 0
                      => ydata[i] /= WithTerms(1)[i]
        /\ (current_function = "pulse" /\ num_terms = 2) => ydata = WithTerms(1)
        /\ (current_function = "pulse" /\ num_terms = 3) =>
              \A i \in 1..Len(x) :
                  pulse_term(frequency, x[i], 3) /= 0
                      => ydata[i] /= WithTerms(2)[i]

\* a sawtooth series of 2 terms with a sample its second term changed
C5_Witness ==
    /\ event = "calculate"
    /\ current_function = "sawtooth"
    /\ num_terms = 2
    /\ \E i \in 1..Len(x) :
          /\ sawtooth_term(frequency, x[i], 2) /= 0
          /\ ydata[i] /= WithTerms(1)[i]

\* C6: for each of the four kinds a term count of 0 or below gives as many samples
\* as the grid has points, all zero.
C6_NoTermsAllZero ==
    (/\ event = "calculate"
     /\ current_function \in Kinds
     /\ num_terms <= 0)
        => /\ Len(ydata) = Len(x)
           /\ \A i \in 1..Len(ydata) : ydata[i] = 0

\* a pulse series was computed with a negative term count
C6_Witness ==
    /\ event = "calculate"
    /\ current_function = "pulse"
    /\ num_terms < 0
    /\ Len(ydata) = GridLen

\* C7: with the amplitude doubled every sample doubles.
C7_AmplitudeDoubles ==
    event = "calculate" =>
        LET twice == calculate_fourier_series(
                        [params(Self) EXCEPT !.amplitude = 2 * amplitude])
        IN  /\ Len(twice) = Len(ydata)
            /\ \A i \in 1..Len(ydata) : twice[i] = 2 * ydata[i]

\* a sawtooth series at the largest slider amplitude with a sample beyond 1.0
C7_Witness ==
    /\ event = "calculate"
    /\ current_function = "sawtooth"
    /\ amplitude = amp_valmax
    /\ \E i \in 1..Len(ydata) : ydata[i] > Unit * SCALE

\* the typed lines that are not numbers
NonNumericLines ==
    { << "a", "b", "c" >>, << >>, << "1", ".", "2", ".", "3" >>,
      << "2", ",", "5" >>, << "1", "e" >> }

\* the first typed line that is not a number, or 0
FirstBad ==
    IF \E k \in 1..Len(stdin) : stdin[k] \in NonNumericLines
    THEN CHOOSE k \in 1..Len(stdin) :
            /\ stdin[k] \in NonNumericLines
            /\ \A j \in 1..(k - 1) : stdin[j] \notin NonNumericLines
    ELSE 0

InvalidLine == << "Invalid input. Please enter numeric values." >>

PromptLines ==
    << << "Enter Lande g-factor (g): " >>,
       << "Enter magnetic quantum number (m_j): " >>,
       << "Enter magnetic field strength in Tesla (B): " >> >>

EnergyPrinted == \E i \in 1..Len(stdout) : stdout[i][1] = "Energy shift (dE):"

\* C8: when one of the typed lines is not a number the calculator never prints an
\* energy line, never asks for a line after the first such line, goes from the
\* failed parse on to its end, and has then printed the banner, the prompts up to
\* that line and the invalid-input message once, and nothing else; an energy line
\* is printed only after three numbers.
C8_InvalidInput ==
    /\ Cardinality({i \in 1..Len(stdout) : stdout[i] = InvalidLine}) <= 1
    /\ FirstBad /= 0 =>
          /\ ~EnergyPrinted
          /\ pc /= "eof_error"
          /\ Cardinality({i \in 1..Len(stdout) :
                            \E k \in 1..Len(PromptLines) : stdout[i] = PromptLines[k]})
                <= FirstBad
          /\ pc = "except" => ENABLED ExceptValueError
          /\ pc = "done" =>
                stdout = << << "Zeeman Effect Energy Shift Calculator" >> >>
                            \o SubSeq(PromptLines, 1, FirstBad)
                            \o << InvalidLine >>
    /\ EnergyPrinted =>
          /\ Len(stdin) = 3
          /\ \A k \in 1..3 : stdin[k] \notin NonNumericLines

\* the run ended after a third line that is not a number
C8_Witness ==
    /\ pc = "done"
    /\ FirstBad = 3
    /\ stdout[Len(stdout)] = InvalidLine

\* C9: populate changes no parameter and no widget, leaves the output and the
\* title as they were, and writes the confirmation line.
C9_PopulateNoOp ==
    [][event' = "populate" =>
         /\ num_terms' = num_terms
         /\ frequency' = frequency
         /\ amplitude' = amplitude
         /\ current_function' = current_function
         /\ << slider_terms', slider_freq', slider_amp', radio' >>
               = << slider_terms, slider_freq, slider_amp, radio >>
         /\ ydata' = ydata
         /\ title' = title
         /\ printed' = << << "Fourier series populated with", num_terms, "terms" >> >>
      ]_vars

\* populate ran with the term count off its default and a curve that is not flat
C9_Witness ==
    /\ event = "populate"
    /\ num_terms = terms_valmax
    /\ Len(printed) = 1
    /\ \E i \in 1..Len(ydata) : ydata[i] /= 0

\* C10: in every state the term count is a whole number of 1..20, the frequency is
\* within 0.1..5.0, the amplitude within 0.1..3.0, the function one of the four
\* labels, and no recompute ran on another label (the all-zero fallback).
C10_ParametersInRange ==
    /\ num_terms \in terms_valmin..terms_valmax
    /\ frequency \in freq_valmin..freq_valmax
    /\ amplitude \in amp_valmin..amp_valmax
    /\ current_function \in Kinds
    /\ \A k \in 1..Len(calls) : calls[k].current_function \in Kinds

\* every control is at the far end of its range
C10_Witness ==
    /\ num_terms = terms_valmax
    /\ frequency = freq_valmax
    /\ amplitude = amp_valmin
    /\ current_function = "pulse"

=============================================================================
